---- MODULE Spec2Model ----
(***************************************************************************)
(* Model of scripts/calculate-rule-tokens.py.                              *)
(*                                                                         *)
(* A text is a sequence of symbols.  The symbols "-", "\n", " ", the       *)
(* decimal digits and "x" (any other character) stand for one character    *)
(* each; the literals the program's regular expressions look for,          *)
(* "ruleTokenCount:", "alwaysApply:" and "true", are one symbol each.      *)
(***************************************************************************)
EXTENDS Integers, Sequences, FiniteSets, TLC

VARIABLES
    \* ---- one invocation of main() --------------------------------------
    dirExists,              \* rules_dir.exists()
    disk,                   \* file name -> text, or Absent
    disk0,                  \* the files as they were when main() started
    update,                 \* args.update
    rule,                   \* args.rule, or NoRule
    pc,                     \* position in main(): "start", "loop", "report", "done"
    rule_files,             \* the list main() iterates over
    idx,                    \* number of loop iterations completed
    total_tokens,
    always_applied_tokens,
    exit_status,            \* NotExited, 0 or 1
    reads,                  \* names of the files read_text() was called on
    writes,                 \* names of the files write_text() was called on
    reported,               \* per-file token counts printed so far
    \* ---- repeated process_rule_file() calls on one file -----------------
    orig,                   \* the file's text before the first call
    text,                   \* the file's text on disk
    prev,                   \* the file's text before the last call
    body,                   \* what extract_content_from_mdc returned in the last call
    token_count,            \* what the last call returned
    outcomes                \* per call: "none" (no update asked), "updated", "refused"

mainVars == <<dirExists, disk, disk0, update, rule, pc, rule_files, idx,
              total_tokens, always_applied_tokens, exit_status, reads,
              writes, reported>>
fileVars == <<orig, text, prev, body, token_count, outcomes>>
vars == <<dirExists, disk, disk0, update, rule, pc, rule_files, idx,
          total_tokens, always_applied_tokens, exit_status, reads,
          writes, reported, orig, text, prev, body, token_count, outcomes>>

(***************************************************************************)
(* Bounds                                                                  *)
(***************************************************************************)
MaxLines == 3       \* lines of a generated document
MaxCalls == 2       \* successive process_rule_file calls on one file
MaxFiles == 2       \* *.mdc names that may exist in the rules directory

(***************************************************************************)
(* Symbols                                                                 *)
(***************************************************************************)
NL == "\n"
SP == " "
DASH == "-"
RTC == "ruleTokenCount:"
AA == "alwaysApply:"
TRUE_LIT == "true"
XCHAR == "x"
DigitChars == <<"0", "1", "2", "3", "4", "5", "6", "7", "8", "9">>
Digit == {DigitChars[i] : i \in 1..10}
Whitespace == {SP, NL}
Symbols == Digit \cup {NL, SP, DASH, RTC, AA, TRUE_LIT, XCHAR}
Delim == <<DASH, DASH, DASH>>

Min(S) == CHOOSE m \in S : \A k \in S : m <= k

(***************************************************************************)
(* Python string primitives.  Offsets are 0-based as in the source.        *)
(***************************************************************************)
\* s[a:b]
Slice(s, a, b) == SubSeq(s, a + 1, b)

\* s[a:]
SliceFrom(s, a) == SubSeq(s, a + 1, Len(s))

\* pat occurs in s at 0-based offset o
OccursAt(s, pat, o) ==
    /\ o >= 0
    /\ o + Len(pat) <= Len(s)
    /\ \A k \in 1..Len(pat) : s[o + k] = pat[k]

\* s.startswith(pat)
StartsWith(s, pat) == OccursAt(s, pat, 0)

\* s.find(pat, start): the lowest offset >= start, or -1
Find(s, pat, start) ==
    LET hits == {o \in start..Len(s) : OccursAt(s, pat, o)}
    IN IF hits = {} THEN -1 ELSE Min(hits)

\* 1-based index of the first symbol at or after i that is not in S (Len(s)+1 if none)
SkipWhile(s, i, S) ==
    Min({j \in i..(Len(s) + 1) : j = Len(s) + 1 \/ s[j] \notin S})

\* 1-based index of the last symbol at or before i that is not in S (0 if none)
SkipBack(s, i, S) ==
    LET c == {j \in 0..i : j = 0 \/ s[j] \notin S}
    IN CHOOSE m \in c : \A k \in c : k <= m

\* s.lstrip()
LStrip(s) == SubSeq(s, SkipWhile(s, 1, Whitespace), Len(s))

\* s.strip()
Strip(s) == SubSeq(s, SkipWhile(s, 1, Whitespace), SkipBack(s, Len(s), Whitespace))

\* str(n) for n >= 0
RECURSIVE Str(_)
Str(n) ==
    IF n < 10 THEN <<DigitChars[n + 1]>>
    ELSE Str(n \div 10) \o <<DigitChars[(n % 10) + 1]>>

(***************************************************************************)
(* Regular expressions (re.MULTILINE: ^ matches at 0 and after "\n").      *)
(***************************************************************************)
AtLineStart(s, i) == i = 1 \/ (i > 1 /\ s[i - 1] = NL)

\* length of the match of  ^ruleTokenCount:\s*\d+  starting at index i, 0 if none
MatchTokenCountField(s, i) ==
    IF i <= Len(s) /\ AtLineStart(s, i) /\ s[i] = RTC
    THEN LET d == SkipWhile(s, i + 1, Whitespace)
             e == SkipWhile(s, d, Digit)
         IN IF e > d THEN e - i ELSE 0
    ELSE 0

\* re.search(r"^ruleTokenCount:\s*\d+", s, re.MULTILINE)
SearchTokenCountField(s) == \E i \in 1..Len(s) : MatchTokenCountField(s, i) > 0

\* re.search(r"^alwaysApply:", s, re.MULTILINE)
SearchAlwaysApplyField(s) == \E i \in 1..Len(s) : AtLineStart(s, i) /\ s[i] = AA

\* ^alwaysApply:\s*true  matches at index i
MatchAlwaysApplyTrue(s, i) ==
    /\ i <= Len(s)
    /\ AtLineStart(s, i)
    /\ s[i] = AA
    /\ LET t == SkipWhile(s, i + 1, Whitespace)
       IN t <= Len(s) /\ s[t] = TRUE_LIT

\* re.search(r"^alwaysApply:\s*true", s, re.MULTILINE)
SearchAlwaysApplyTrue(s) == \E i \in 1..Len(s) : MatchAlwaysApplyTrue(s, i)

\* re.sub(r"^ruleTokenCount:\s*\d+", f"ruleTokenCount: {n}", s, flags=re.MULTILINE), from index i on
RECURSIVE SubTokenCountField(_, _, _)
SubTokenCountField(s, i, n) ==
    IF i > Len(s) THEN <<>>
    ELSE LET m == MatchTokenCountField(s, i)
         IN IF m > 0
            THEN <<RTC, SP>> \o Str(n) \o SubTokenCountField(s, i + m, n)
            ELSE <<s[i]>> \o SubTokenCountField(s, i + 1, n)

\* re.sub(r"^(alwaysApply:)", f"ruleTokenCount: {n}\n\\1", s, flags=re.MULTILINE), from index i on
RECURSIVE SubBeforeAlwaysApply(_, _, _)
SubBeforeAlwaysApply(s, i, n) ==
    IF i > Len(s) THEN <<>>
    ELSE IF AtLineStart(s, i) /\ s[i] = AA
         THEN <<RTC, SP>> \o Str(n) \o <<NL, AA>> \o SubBeforeAlwaysApply(s, i + 1, n)
         ELSE <<s[i]>> \o SubBeforeAlwaysApply(s, i + 1, n)

(***************************************************************************)
(* count_tokens: the tokenizer is an external library.  It is modelled as  *)
(* a deterministic count, one token per character symbol and several for   *)
(* the literal symbols, which is 0 exactly for the empty text.             *)
(***************************************************************************)
TokenWeight(c) == IF c = RTC THEN 4 ELSE IF c = AA THEN 3 ELSE 1

RECURSIVE count_tokens(_)
count_tokens(t) ==
    IF t = <<>> THEN 0 ELSE TokenWeight(Head(t)) + count_tokens(Tail(t))

(***************************************************************************)
(* extract_content_from_mdc, on the text read from the file                *)
(***************************************************************************)
extract_content_from_mdc(content) ==
    LET frontmatter_end == Find(content, Delim, 3)
    IN IF frontmatter_end = -1
       THEN content
       ELSE LStrip(SliceFrom(content, frontmatter_end + 3))

(***************************************************************************)
(* update_rule_token_count, on the text read from the file: the value      *)
(* returned and the text written (the text read when nothing is written).  *)
(***************************************************************************)
\* mutant: an existing field is never detected, the field is always appended
UpdatedFrontmatterAlwaysAppend(frontmatter, n) ==
    frontmatter \o <<NL, RTC, SP>> \o Str(n)

UpdatedFrontmatter(frontmatter, n) ==
    IF SearchTokenCountField(frontmatter)
    THEN SubTokenCountField(frontmatter, 1, n)
    ELSE IF SearchAlwaysApplyField(frontmatter)
         THEN SubBeforeAlwaysApply(frontmatter, 1, n)
         ELSE frontmatter \o <<NL, RTC, SP>> \o Str(n)

\* mutant: the opening delimiter is not checked
update_rule_token_count_NoStartCheck(content, n) ==
    LET frontmatter_end == Find(content, Delim, 3)
    IN IF frontmatter_end = -1
       THEN [ok |-> FALSE, written |-> FALSE, content |-> content]
       ELSE LET frontmatter == Strip(Slice(content, 3, frontmatter_end))
                rest == SliceFrom(content, frontmatter_end + 3)
            IN [ok |-> TRUE, written |-> TRUE,
                content |-> Delim \o <<NL>> \o UpdatedFrontmatter(frontmatter, n)
                            \o <<NL>> \o Delim \o rest]

update_rule_token_count(content, n) ==
    IF ~StartsWith(content, Delim)
    THEN [ok |-> FALSE, written |-> FALSE, content |-> content]
    ELSE LET frontmatter_end == Find(content, Delim, 3)
         IN IF frontmatter_end = -1
            THEN [ok |-> FALSE, written |-> FALSE, content |-> content]
            ELSE LET frontmatter == Strip(Slice(content, 3, frontmatter_end))
                     rest == SliceFrom(content, frontmatter_end + 3)
                 IN [ok |-> TRUE, written |-> TRUE,
                     content |-> Delim \o <<NL>> \o UpdatedFrontmatter(frontmatter, n)
                                 \o <<NL>> \o Delim \o rest]

(***************************************************************************)
(* process_rule_file, on the text of the file                              *)
(***************************************************************************)
process_rule_file(content, upd) ==
    LET extracted == extract_content_from_mdc(content)
        count == count_tokens(extracted)
        res == IF upd THEN update_rule_token_count(content, count)
               ELSE [ok |-> FALSE, written |-> FALSE, content |-> content]
    IN [body |-> extracted, token_count |-> count, ok |-> res.ok,
        written |-> res.written, content |-> res.content]

(***************************************************************************)
(* The rules directory: file names are <<stem, extension>>; a name maps to *)
(* the file's text, or to Absent when there is no such file.               *)
(***************************************************************************)
Absent == <<"ENOENT">>
NoRule == <<"None">>
NotExited == -1
MdcStems == <<"a", "b", "c", "d", "e">>
NotesFile == <<"notes", "txt">>

\* every name a file of the directory may have, in lexicographic order
Listing == [k \in 1..MaxFiles |-> <<MdcStems[k], "mdc">>] \o <<NotesFile>>
FileNames == {Listing[k] : k \in 1..Len(Listing)}

\* sorted(rules_dir.glob("*.mdc"))
GlobMdc(d) == SelectSeq(Listing, LAMBDA f : d[f] # Absent /\ f[2] = "mdc")

\* mutant: a named file that does not exist is not detected
SelectRuleFilesNoExistsCheck(exists, r, d) ==
    IF ~exists
    THEN [fatal |-> TRUE, files |-> <<>>]
    ELSE LET files == IF r # NoRule THEN <<r>> ELSE GlobMdc(d)
         IN IF files = <<>>
            THEN [fatal |-> TRUE, files |-> files]
            ELSE [fatal |-> FALSE, files |-> files]

\* main, file discovery: whether the run ends with sys.exit(1), and rule_files
SelectRuleFiles(exists, r, d) ==
    IF ~exists
    THEN [fatal |-> TRUE, files |-> <<>>]
    ELSE LET files == IF r # NoRule THEN <<r>> ELSE GlobMdc(d)
         IN IF r # NoRule /\ d[files[1]] = Absent
            THEN [fatal |-> TRUE, files |-> files]
            ELSE IF files = <<>>
                 THEN [fatal |-> TRUE, files |-> files]
                 ELSE [fatal |-> FALSE, files |-> files]

\* main, one iteration of the loop, on the text of rule_file
LoopBody(content, upd) ==
    LET r == process_rule_file(content, upd)
    IN [content |-> r.content, written |-> r.written,
        token_count |-> r.token_count,
        always |-> SearchAlwaysApplyTrue(r.content)]

\* main, the whole loop over files: what is printed and accumulated
RECURSIVE RunLoop(_, _, _)
RunLoop(d, files, upd) ==
    IF files = <<>>
    THEN [reported |-> <<>>, total_tokens |-> 0, always_applied_tokens |-> 0]
    ELSE LET b == LoopBody(d[Head(files)], upd)
             t == RunLoop(d, Tail(files), upd)
         IN [reported |-> <<b.token_count>> \o t.reported,
             total_tokens |-> b.token_count + t.total_tokens,
             always_applied_tokens |->
                 (IF b.always THEN b.token_count ELSE 0) + t.always_applied_tokens]

(***************************************************************************)
(* Documents: lines joined by "\n"; either any lines, or a frontmatter     *)
(* block (opening line, lines, closing delimiter) followed by a rest.      *)
(***************************************************************************)
RECURSIVE SeqsUpTo(_, _)
SeqsUpTo(S, n) ==
    IF n = 0 THEN {<<>>}
    ELSE LET P == SeqsUpTo(S, n - 1)
         IN P \cup {Append(p, e) : p \in {q \in P : Len(q) = n - 1}, e \in S}

RECURSIVE JoinLines(_)
JoinLines(ls) ==
    IF ls = <<>> THEN <<>>
    ELSE IF Len(ls) = 1 THEN ls[1]
    ELSE ls[1] \o <<NL>> \o JoinLines(Tail(ls))

LineChoices ==
    { Delim,
      <<AA, SP, TRUE_LIT>>,
      <<RTC, SP, "5">>,
      <<RTC>>,
      <<SP, RTC, SP, "5">>,
      <<"5", XCHAR>>,
      <<>>,
      <<XCHAR, DASH, DASH, DASH>> }

RestChoices ==
    { <<>>,
      <<NL>>,
      <<NL, NL, SP, XCHAR, NL>>,
      <<NL, AA, SP, TRUE_LIT>>,
      <<XCHAR>> }

PlainDocs == {JoinLines(ls) : ls \in SeqsUpTo(LineChoices, MaxLines)}

FrontmatterDocs ==
    {Delim \o <<NL>> \o JoinLines(ls) \o <<NL>> \o Delim \o r :
        ls \in SeqsUpTo(LineChoices, MaxLines), r \in RestChoices}

Docs == PlainDocs \cup FrontmatterDocs

(***************************************************************************)
(* One file, process_rule_file called on it repeatedly                     *)
(***************************************************************************)
Last(s) == s[Len(s)]

MainIdle ==
    /\ dirExists = TRUE
    /\ disk = <<>>
    /\ disk0 = <<>>
    /\ update = FALSE
    /\ rule = NoRule
    /\ pc = "idle"
    /\ rule_files = <<>>
    /\ idx = 0
    /\ total_tokens = 0
    /\ always_applied_tokens = 0
    /\ exit_status = NotExited
    /\ reads = {}
    /\ writes = {}
    /\ reported = <<>>

InitFile ==
    /\ MainIdle
    /\ orig \in Docs
    /\ text = orig
    /\ prev = orig
    /\ body = <<>>
    /\ token_count = 0
    /\ outcomes = <<>>

CallProcessRuleFile ==
    /\ Len(outcomes) < MaxCalls
    /\ \E upd \in BOOLEAN :
         LET r == process_rule_file(text, upd)
         IN /\ text' = r.content
            /\ prev' = text
            /\ body' = r.body
            /\ token_count' = r.token_count
            /\ outcomes' = Append(outcomes,
                                  IF ~upd THEN "none"
                                  ELSE IF r.ok THEN "updated" ELSE "refused")
    /\ UNCHANGED orig
    /\ UNCHANGED mainVars

NextFile == CallProcessRuleFile

SpecFile == InitFile /\ [][NextFile]_vars

(***************************************************************************)
(* Vocabulary of the properties                                            *)
(***************************************************************************)
\* the lines of a text (split on "\n")
RECURSIVE SplitLines(_)
SplitLines(s) ==
    LET e == SkipWhile(s, 1, Symbols \ {NL})
    IN IF e > Len(s) THEN <<s>>
       ELSE <<SubSeq(s, 1, e - 1)>> \o SplitLines(SubSeq(s, e + 1, Len(s)))

IsTokenCountLine(l) == l # <<>> /\ l[1] = RTC
IsAlwaysApplyLine(l) == l # <<>> /\ l[1] = AA
IsOtherFieldLine(l) == Strip(l) # <<>> /\ Strip(l)[1] # RTC

\* the file starts with the delimiter and the delimiter occurs again later
HasDelimiters(content) == StartsWith(content, Delim) /\ Find(content, Delim, 3) # -1

\* the text between the opening delimiter and the next one
FrontmatterBlock(content) == Slice(content, 3, Find(content, Delim, 3))

\* the text after the delimiter that closes the block
AfterFrontmatter(content) == SliceFrom(content, Find(content, Delim, 3) + 3)

\* the ruleTokenCount lines of the frontmatter block, in order
TokenCountLines(content) ==
    SelectSeq(SplitLines(FrontmatterBlock(content)), IsTokenCountLine)

\* the other field lines of the frontmatter block, trimmed, in order
OtherFieldLines(content) ==
    LET ls == SelectSeq(SplitLines(FrontmatterBlock(content)), IsOtherFieldLine)
    IN [k \in 1..Len(ls) |-> Strip(ls[k])]

Called == outcomes # <<>>
LastUpdated == Called /\ Last(outcomes) = "updated"
TwiceUpdated ==
    /\ Len(outcomes) >= 2
    /\ outcomes[Len(outcomes)] = "updated"
    /\ outcomes[Len(outcomes) - 1] = "updated"

(***************************************************************************)
(* C1: update mode is idempotent: when two successive calls both update    *)
(* the file, the second leaves the same ruleTokenCount lines (the same     *)
(* value, the same number of lines) as the first wrote.                    *)
(***************************************************************************)
C1_UpdateIdempotent ==
    TwiceUpdated => TokenCountLines(text) = TokenCountLines(prev)

\* the first call inserted the field into a frontmatter that had none, the second replaced it
C1_Witness ==
    /\ Len(outcomes) = 2
    /\ TwiceUpdated
    /\ TokenCountLines(orig) = <<>>
    /\ Len(TokenCountLines(prev)) = 1
    /\ Len(TokenCountLines(text)) = 1
    /\ token_count >= 10

(***************************************************************************)
(* C2: after a successful update the body extracted from the rewritten     *)
(* file is the body of the original file, and the frontmatter keeps every  *)
(* other field line, in order; only ruleTokenCount lines differ.           *)
(***************************************************************************)
C2_RoundTrip ==
    LastUpdated =>
        /\ extract_content_from_mdc(text) = body
        /\ AfterFrontmatter(text) = AfterFrontmatter(prev)
        /\ OtherFieldLines(text) = OtherFieldLines(prev)

(***************************************************************************)
(* C3: on a text that does not start with the delimiter, or has no second  *)
(* delimiter after the opening one, extraction returns the whole text.     *)
(***************************************************************************)
C3_NoFrontmatterWholeText ==
    (Called /\ ~HasDelimiters(prev)) => body = prev

(***************************************************************************)
(* C4: on a text whose first line is exactly the delimiter and that has a  *)
(* later line that is exactly the delimiter, extraction returns the text   *)
(* after the first such line, left-trimmed.                                *)
(***************************************************************************)
ClosingLine(ls) == Min({k \in 2..Len(ls) : ls[k] = Delim})

WellFormed(content) ==
    LET ls == SplitLines(content)
    IN ls[1] = Delim /\ \E k \in 2..Len(ls) : ls[k] = Delim

\* the text after the closing delimiter line
AfterClosingLine(content) ==
    LET ls == SplitLines(content)
        k == ClosingLine(ls)
    IN IF k = Len(ls) THEN <<>>
       ELSE <<NL>> \o JoinLines(SubSeq(ls, k + 1, Len(ls)))

C4_WellFormedExtraction ==
    (Called /\ WellFormed(prev)) => body = LStrip(AfterClosingLine(prev))

(***************************************************************************)
(* C5: after a successful update the frontmatter holds exactly one         *)
(* ruleTokenCount line, "ruleTokenCount: n"; it is where the matched field *)
(* was, else right before the alwaysApply line, else the last line.        *)
(***************************************************************************)
C5_FieldPlacement ==
    LastUpdated =>
        LET old == SplitLines(Strip(FrontmatterBlock(prev)))
            new == SplitLines(Strip(FrontmatterBlock(text)))
            at == {k \in 1..Len(new) : IsTokenCountLine(new[k])}
            was == {j \in 1..Len(old) : MatchTokenCountField(old[j], 1) > 0}
        IN /\ Cardinality(at) = 1
           /\ \A k \in at :
                /\ new[k] = <<RTC, SP>> \o Str(token_count)
                /\ IF was # {} THEN k \in was
                   ELSE IF \E j \in 1..Len(old) : IsAlwaysApplyLine(old[j])
                        THEN k < Len(new) /\ IsAlwaysApplyLine(new[k + 1])
                        ELSE k = Len(new)

(***************************************************************************)
(* One invocation of main()                                                *)
(***************************************************************************)
SampleDocs ==
    { \* frontmatter with alwaysApply: true
      Delim \o <<NL, AA, SP, TRUE_LIT, NL>> \o Delim \o <<NL, XCHAR>>,
      \* frontmatter with another alwaysApply value
      Delim \o <<NL, AA, SP, XCHAR, NL>> \o Delim \o <<NL, XCHAR>>,
      \* frontmatter with both fields
      Delim \o <<NL, RTC, SP, "5", NL, AA, SP, TRUE_LIT, NL>> \o Delim \o <<NL, XCHAR, SP, RTC, XCHAR>>,
      \* frontmatter whose alwaysApply line is indented
      Delim \o <<NL, SP, AA, SP, TRUE_LIT, NL>> \o Delim \o <<NL, XCHAR>>,
      \* empty frontmatter, empty body
      Delim \o <<NL>> \o Delim \o <<NL>>,
      \* alwaysApply: true as a line of the body
      Delim \o <<NL>> \o Delim \o <<NL, AA, SP, TRUE_LIT>>,
      \* no opening delimiter, a delimiter later
      <<XCHAR, NL, XCHAR>> \o Delim \o <<NL, XCHAR>>,
      \* opening delimiter, no closing one
      Delim \o <<NL, XCHAR>> }

FileIdle ==
    /\ orig = <<>>
    /\ text = <<>>
    /\ prev = <<>>
    /\ body = <<>>
    /\ token_count = 0
    /\ outcomes = <<>>

Init ==
    /\ FileIdle
    /\ dirExists \in BOOLEAN
    /\ disk \in [FileNames -> SampleDocs \cup {Absent}]
    /\ ~dirExists => \A f \in FileNames : disk[f] = Absent
    /\ disk[NotesFile] \in {Absent, <<XCHAR, NL, XCHAR>> \o Delim \o <<NL, XCHAR>>}
    /\ disk0 = disk
    /\ update \in BOOLEAN
    /\ rule \in {NoRule} \cup FileNames
    /\ pc = "start"
    /\ rule_files = <<>>
    /\ idx = 0
    /\ total_tokens = 0
    /\ always_applied_tokens = 0
    /\ exit_status = NotExited
    /\ reads = {}
    /\ writes = {}
    /\ reported = <<>>

\* main, lines 131-155: arguments, discovery, the fatal exits
Discover ==
    /\ pc = "start"
    /\ LET sel == SelectRuleFiles(dirExists, rule, disk)
       IN /\ rule_files' = sel.files
          /\ IF sel.fatal
             THEN pc' = "done" /\ exit_status' = 1
             ELSE pc' = "loop" /\ exit_status' = NotExited
    /\ UNCHANGED <<dirExists, disk, disk0, update, rule, idx, total_tokens,
                   always_applied_tokens, reads, writes, reported>>
    /\ UNCHANGED fileVars

\* main, lines 157-164: one iteration of the loop
ProcessNext ==
    /\ pc = "loop"
    /\ idx < Len(rule_files)
    /\ LET f == rule_files[idx + 1]
       IN IF disk[f] = Absent
          THEN \* read_text raises FileNotFoundError, which nothing catches
               /\ pc' = "done"
               /\ exit_status' = 1
               /\ UNCHANGED <<disk, idx, total_tokens, always_applied_tokens,
                              reads, writes, reported>>
          ELSE LET b == LoopBody(disk[f], update)
               IN /\ disk' = [disk EXCEPT ![f] = b.content]
                  /\ reads' = reads \cup {f}
                  /\ writes' = IF b.written THEN writes \cup {f} ELSE writes
                  /\ reported' = Append(reported, b.token_count)
                  /\ total_tokens' = total_tokens + b.token_count
                  /\ always_applied_tokens' =
                        IF b.always THEN always_applied_tokens + b.token_count
                        ELSE always_applied_tokens
                  /\ idx' = idx + 1
                  /\ UNCHANGED <<pc, exit_status>>
    /\ UNCHANGED <<dirExists, disk0, update, rule, rule_files>>
    /\ UNCHANGED fileVars

\* main, lines 166-171: the totals; the percentage divides by total_tokens
Report ==
    /\ pc = "loop"
    /\ idx = Len(rule_files)
    /\ pc' = "done"
    /\ exit_status' = IF total_tokens = 0 THEN 1 ELSE 0
    /\ UNCHANGED <<dirExists, disk, disk0, update, rule, rule_files, idx,
                   total_tokens, always_applied_tokens, reads, writes, reported>>
    /\ UNCHANGED fileVars

Next == Discover \/ ProcessNext \/ Report

Spec == Init /\ [][Next]_vars

(***************************************************************************)
(* Vocabulary of the properties of a run                                   *)
(***************************************************************************)
RECURSIVE SumSeq(_)
SumSeq(q) == IF q = <<>> THEN 0 ELSE Head(q) + SumSeq(Tail(q))

\* the loop has been left through its end and the totals were printed or attempted
Finished == pc = "done" /\ rule_files # <<>> /\ idx = Len(rule_files)

\* the rules directory holds a *.mdc file
SomeMdcFile == \E f \in FileNames : f[2] = "mdc" /\ disk[f] # Absent

NamedFileMissing == rule # NoRule /\ disk[rule] = Absent

\* the frontmatter block (up to the closing delimiter) has a line alwaysApply: true
FrontmatterAlwaysApplyTrue(content) ==
    /\ HasDelimiters(content)
    /\ \E i \in 1..Find(content, Delim, 3) : MatchAlwaysApplyTrue(content, i)

\* no file was read or written and the loop was never entered
NoFileWork ==
    /\ pc \in {"start", "done"}
    /\ idx = 0
    /\ reads = {}
    /\ writes = {}
    /\ reported = <<>>
    /\ disk = disk0
    /\ pc = "done" => exit_status = 1

(***************************************************************************)
(* C6: in update mode a file without the opening delimiter, or without a   *)
(* second delimiter, is not written and keeps its text; its token count is *)
(* reported and added to the total; the files after it are processed.      *)
(***************************************************************************)
C6_RefusedUpdateRecoverable ==
    /\ \A k \in 1..idx :
          LET f == rule_files[k]
          IN (update /\ ~HasDelimiters(disk0[f])) =>
                /\ disk[f] = disk0[f]
                /\ f \notin writes
                /\ f \in reads
                /\ reported[k] = count_tokens(extract_content_from_mdc(disk0[f]))
    /\ Len(reported) = idx
    /\ total_tokens = SumSeq(reported)
    /\ (pc = "done" /\ idx > 0) =>
          /\ idx = Len(rule_files)
          /\ reads = {rule_files[k] : k \in 1..Len(rule_files)}

\* a finished update run whose first file was refused and whose second file was rewritten
C6_Witness ==
    /\ Finished
    /\ update
    /\ Len(rule_files) >= 2
    /\ ~HasDelimiters(disk0[rule_files[1]])
    /\ rule_files[1] \notin writes
    /\ reported[1] > 0
    /\ rule_files[2] \in writes
    /\ disk[rule_files[2]] # disk0[rule_files[2]]

(***************************************************************************)
(* C7: at the end of a run the always-applied total is the sum of the      *)
(* token counts of the files whose frontmatter block has a line            *)
(* alwaysApply: true.                                                      *)
(***************************************************************************)
C7_AlwaysAppliedSubtotal ==
    Finished =>
        always_applied_tokens =
            SumSeq([k \in 1..Len(rule_files) |->
                        IF FrontmatterAlwaysApplyTrue(disk0[rule_files[k]])
                        THEN reported[k] ELSE 0])

(***************************************************************************)
(* C8: a run whose directory exists, whose named file exists and that      *)
(* selects at least one file processes all of them and exits with 0.       *)
(***************************************************************************)
C8_NormalCompletion ==
    (pc = "done" /\ dirExists /\ ~NamedFileMissing /\ (rule # NoRule \/ SomeMdcFile)) =>
        /\ idx = Len(rule_files)
        /\ exit_status = 0

(***************************************************************************)
(* C9 as stated: when the directory does not exist, or the named file does *)
(* not exist, or the directory holds no *.mdc file, the run exits with a   *)
(* non-zero status and no file is ever read or written.                    *)
(***************************************************************************)
C9_FatalBeforeWork_Original ==
    (~dirExists \/ NamedFileMissing \/ ~SomeMdcFile) => NoFileWork

(***************************************************************************)
(* C9 as amended: when the directory does not exist, or the named file     *)
(* does not exist, or no file is named and the directory holds no *.mdc    *)
(* file, the run exits with a non-zero status and no file is ever read or  *)
(* written.                                                                *)
(***************************************************************************)
C9_FatalBeforeWork ==
    (~dirExists \/ NamedFileMissing \/ (rule = NoRule /\ ~SomeMdcFile)) => NoFileWork

\* a run that named a missing file in a directory that holds rule files
C9_Witness ==
    /\ pc = "done"
    /\ exit_status = 1
    /\ dirExists
    /\ NamedFileMissing
    /\ SomeMdcFile
    /\ reads = {}

(***************************************************************************)
(* C10: a finished run with --update reports the per-file token counts,    *)
(* the total and the always-applied total that a run without --update      *)
(* reports on the same initial files.                                      *)
(***************************************************************************)
C10_UpdateReportsSame ==
    (Finished /\ update) =>
        LET ref == RunLoop(disk0, rule_files, FALSE)
        IN /\ reported = ref.reported
           /\ total_tokens = ref.total_tokens
           /\ always_applied_tokens = ref.always_applied_tokens

====
